---- MODULE Spec2Model ----
(***************************************************************************)
(* Model of src/src/app.py: the window planner (get_last_trading_day,      *)
(* pick_interval, compute_window_endpoints), the resilient fetcher         *)
(* (fetch_history with its nested to_close_series) and the orchestration   *)
(* entry point update_chart.                                               *)
(*                                                                         *)
(* Representation                                                          *)
(*   - a dt.date is its proleptic ordinal (date.toordinal()), so that      *)
(*     date.weekday() = (ordinal + 6) % 7, Monday = 0 ... Sunday = 6;      *)
(*   - a timestamp is wall-clock seconds, ordinal * 86400 + second of day; *)
(*     tz_localize(None) keeps the wall clock, so it leaves that number;   *)
(*   - a Python str is a tuple of one-character strings, so that lower(),  *)
(*     upper() and strip() are computed character by character;            *)
(*   - a dynamically typed argument is a record [type, val, num];          *)
(*   - a pd.Series is a sequence of rows [t, close] in index order;        *)
(*   - a provider DataFrame is a record [is_none, columns, has_close,      *)
(*     index, close]; a missing close price is the string "NaN".           *)
(***************************************************************************)
EXTENDS Integers, Sequences, FiniteSets, TLC

VARIABLES
    pc,         \* position: "idle", "fast", "download", "history", "period", "done"
    caller,     \* which entry point runs: "update_chart", "fetch_history", "compute_window_endpoints"
    ticker_in,  \* update_chart's ticker argument
    range_key,  \* the range_key argument
    today,      \* dt.date.today(), or the end_date argument of a direct call
    ticker,     \* fetch_history's ticker argument
    start,      \* fetch_history's start / the planned start_date
    end,        \* fetch_history's end / the planned end_date
    days,       \* fetch_history's local days
    interval,   \* fetch_history's local interval
    calls,      \* provider calls made so far: [strategy, raised, data, got], data the
                \* normalized response and got what the strategy made of it
    stderr,     \* lines printed to sys.stderr
    ret,        \* fetch_history's return value
    out         \* update_chart's return value

vars == <<pc, caller, ticker_in, range_key, today, ticker, start, end, days,
          interval, calls, stderr, ret, out>>

-----------------------------------------------------------------------------
(* Bounds of the model *)

\* longest provider response, in rows
MaxRows == 2

\* ordinal of the first reference date; (BaseDate .. BaseDate + 6) covers a week
BaseDate == 20000

Dates == BaseDate .. (BaseDate + 6)

\* the values of dt.date.today() update_chart runs on: with BaseDate a Monday,
\* a Monday, a Wednesday, a Saturday and a Sunday
Todays == {BaseDate, BaseDate + 2, BaseDate + 5, BaseDate + 6}

\* the end dates and the (end - start).days of the windows passed to
\* fetch_history directly
FetchEnds == {BaseDate + 2, BaseDate + 4}
Spans == {-1, 0, 1, 2, 3, 10, 11, 60, 61}

-----------------------------------------------------------------------------
(* Python values *)

PyNone == [type |-> "NoneType", val |-> << >>, num |-> 0]
PyStr(s) == [type |-> "str", val |-> s, num |-> 0]
PyInt(n) == [type |-> "int", val |-> << >>, num |-> n]

\* bool(x) of a Python value
Truthy(x) ==
    CASE x.type = "NoneType" -> FALSE
      [] x.type = "str" -> x.val # << >>
      [] x.type = "int" -> x.num # 0

\* x or ""
OrEmpty(x) == IF Truthy(x) THEN x ELSE PyStr(<< >>)

LowerCase == <<"a", "d", "l", "m", "p", "w", "x", "y", "z">>
UpperCase == <<"A", "D", "L", "M", "P", "W", "X", "Y", "Z">>

IndexIn(seq, c) == IF \E i \in DOMAIN seq : seq[i] = c
                   THEN CHOOSE i \in DOMAIN seq : seq[i] = c
                   ELSE 0

\* str.lower()
Lower(s) == [i \in DOMAIN s |->
                IF IndexIn(UpperCase, s[i]) # 0
                THEN LowerCase[IndexIn(UpperCase, s[i])] ELSE s[i]]

\* str.upper()
Upper(s) == [i \in DOMAIN s |->
                IF IndexIn(LowerCase, s[i]) # 0
                THEN UpperCase[IndexIn(LowerCase, s[i])] ELSE s[i]]

Whitespace == {" ", "\t", "\n"}

RECURSIVE LStrip(_)
LStrip(s) == IF s # << >> /\ Head(s) \in Whitespace THEN LStrip(Tail(s)) ELSE s

RECURSIVE RStrip(_)
RStrip(s) == IF s # << >> /\ s[Len(s)] \in Whitespace
             THEN RStrip(SubSeq(s, 1, Len(s) - 1)) ELSE s

\* str.strip()
Strip(s) == RStrip(LStrip(s))

DEFAULT_TICKER == <<"A", "A", "P", "L">>

-----------------------------------------------------------------------------
(* Data helpers *)

\* date.weekday()
Weekday(date) == (date + 6) % 7

get_last_trading_day_sunday1(date) ==
    IF Weekday(date) = 5 THEN date - 1
    ELSE IF Weekday(date) = 6 THEN date - 1
    ELSE date

get_last_trading_day(date) ==
    IF Weekday(date) = 5 THEN date - 1
    ELSE IF Weekday(date) = 6 THEN date - 2
    ELSE date

pick_interval_strict(d) ==
    IF d < 2 THEN "5m"
    ELSE IF d < 10 THEN "30m"
    ELSE IF d < 60 THEN "60m"
    ELSE "1d"

pick_interval(d) ==
    IF d <= 2 THEN "5m"
    ELSE IF d <= 10 THEN "30m"
    ELSE IF d <= 60 THEN "60m"
    ELSE "1d"

\* (end - start).days or 1
SpanDays(s, e) == IF e - s # 0 THEN e - s ELSE 1

RANGE_KEYS == {<<"1", "d">>, <<"1", "w">>, <<"1", "m">>, <<"3", "m">>,
               <<"6", "m">>, <<"1", "y">>, <<"2", "y">>}

RANGE_DAYS_month31(k) ==
    CASE k = <<"1", "d">> -> 1
      [] k = <<"1", "w">> -> 7
      [] k = <<"1", "m">> -> 31
      [] k = <<"3", "m">> -> 90
      [] k = <<"6", "m">> -> 180
      [] k = <<"1", "y">> -> 365
      [] k = <<"2", "y">> -> 730

RANGE_DAYS(k) ==
    CASE k = <<"1", "d">> -> 1
      [] k = <<"1", "w">> -> 7
      [] k = <<"1", "m">> -> 30
      [] k = <<"3", "m">> -> 90
      [] k = <<"6", "m">> -> 180
      [] k = <<"1", "y">> -> 365
      [] k = <<"2", "y">> -> 730

\* RANGE_DAYS.get((range_key or "3m").lower(), 90)
RangeOffset(rk) ==
    LET k == Lower(IF Truthy(rk) THEN rk.val ELSE <<"3", "m">>)
    IN  IF k \in RANGE_KEYS THEN RANGE_DAYS(k) ELSE 90

\* compute_window_endpoints for a str or None range_key: <<start_date, end_date>>
compute_window_endpoints(rk, end_date) ==
    IF Lower(OrEmpty(rk).val) = <<"1", "d">>
    THEN LET e == get_last_trading_day(end_date) IN <<e - 1, e>>
    ELSE <<end_date - RangeOffset(rk), end_date>>

-----------------------------------------------------------------------------
(* Provider responses *)

\* midnight of a date, as a timestamp (pd.Timestamp(date))
Midnight(date) == date * 86400

\* timestamps a provider row may carry: Tuesday 09:30:00, and Wednesday
\* 09:30:10, 09:30:40 and 09:35:00 of the week that starts at BaseDate
Stamps == {Midnight(BaseDate + 1) + 34200,
           Midnight(BaseDate + 2) + 34210,
           Midnight(BaseDate + 2) + 34240,
           Midnight(BaseDate + 2) + 34500}

Closes == {"NaN", "101.5"}

SeqsUpTo(S, n) == UNION {[1..k -> S] : k \in 0..n}

NoneFrame == [is_none |-> TRUE, columns |-> "flat", has_close |-> FALSE,
              index |-> << >>, close |-> << >>]

\* what yf.download / Ticker.history may return
Frames ==
    {NoneFrame}
    \cup {[is_none |-> FALSE, columns |-> c, has_close |-> FALSE,
           index |-> idx, close |-> << >>] :
            c \in {"flat", "multi"}, idx \in SeqsUpTo(Stamps, MaxRows)}
    \cup UNION {{[is_none |-> FALSE, columns |-> c, has_close |-> TRUE,
                  index |-> idx, close |-> cl] :
                    c \in {"flat", "multi"}, cl \in [DOMAIN idx -> Closes]} :
                idx \in SeqsUpTo(Stamps, MaxRows)}

\* a provider call either raises or returns a frame
Outcomes == {[raises |-> TRUE, df |-> NoneFrame]}
            \cup {[raises |-> FALSE, df |-> f] : f \in Frames}

-----------------------------------------------------------------------------
(* fetch_history.to_close_series *)

\* DatetimeIndex.normalize() / floor("D")
FloorDay(t) == t - (t % 86400)

\* DatetimeIndex.floor("min")
FloorMin(t) == t - (t % 60)

\* the Close column of a frame as a series, or the empty default of df.get
SelectClose(df) ==
    IF df.has_close
    THEN [i \in DOMAIN df.index |-> [t |-> df.index[i], close |-> df.close[i]]]
    ELSE << >>

\* Series.dropna()
DropNa(s) == SelectSeq(s, LAMBDA r : r.close # "NaN")

\* lines 175-179: the index floored to the day or to the minute
FloorIndex(s, iv) ==
    [i \in DOMAIN s |->
        [t |-> IF iv = "1d" THEN FloorDay(s[i].t) ELSE FloorMin(s[i].t),
         close |-> s[i].close]]

to_close_series(df, iv) ==
    IF df.is_none \/ Len(df.index) = 0 THEN << >>
    ELSE LET s == DropNa(SelectClose(df))
         IN  IF s = << >> THEN s ELSE FloorIndex(s, iv)

-----------------------------------------------------------------------------
(* fetch_history *)

Max(S) == CHOOSE x \in S : \A y \in S : y <= x
Min(S) == CHOOSE x \in S : \A y \in S : x <= y

SessionDays(s) == {FloorDay(s[i].t) : i \in DOMAIN s}

LastSession_first(s) == Min(SessionDays(s))

\* s.index.normalize().max()
LastSession(s) == Max(SessionDays(s))

\* s[s.index.normalize() == last_session], for a non-empty s
RestrictToLastSession(s) ==
    SelectSeq(s, LAMBDA r : FloorDay(r.t) = LastSession(s))

\* s2.loc[(index >= Timestamp(start)) & (index < Timestamp(end_inclusive))]
SliceWindow(s, st, en) ==
    SelectSeq(s, LAMBDA r : r.t >= Midnight(st) /\ r.t < Midnight(en + 1))

\* what a strategy makes of the normalized, non-empty series s
Candidate(p, s, d, st, en) ==
    CASE p = "fast" -> RestrictToLastSession(s)
      [] p = "download" -> s
      [] p = "history" -> s
      [] p = "period" -> IF d = 1 THEN RestrictToLastSession(s)
                         ELSE SliceWindow(s, st, en)

\* what a strategy yields from the frame the provider returned
Yield(p, df, iv, d, st, en) ==
    LET s == to_close_series(df, iv)
    IN  IF s = << >> THEN s ELSE Candidate(p, s, d, st, en)

NextStrategy_ungated(p, iv, d) ==
    CASE p = "begin" -> IF iv # "1d" THEN "fast" ELSE "download"
      [] p = "fast" -> "download"
      [] p = "download" -> "history"
      [] p = "history" -> "period"
      [] p = "period" -> "nodata"

NextStrategy_skip(p, iv, d) ==
    CASE p = "begin" -> IF iv # "1d" /\ d = 1 THEN "fast" ELSE "download"
      [] p = "fast" -> "history"
      [] p = "download" -> "history"
      [] p = "history" -> IF iv # "1d" THEN "period" ELSE "nodata"
      [] p = "period" -> "nodata"

\* the strategy whose provider call comes after p fails ("nodata": none is left)
NextStrategy(p, iv, d) ==
    CASE p = "begin" -> IF iv # "1d" /\ d = 1 THEN "fast" ELSE "download"
      [] p = "fast" -> "download"
      [] p = "download" -> "history"
      [] p = "history" -> IF iv # "1d" THEN "period" ELSE "nodata"
      [] p = "period" -> "nodata"

\* the prefix each except clause prints
ErrorPrefix(p) ==
    CASE p = "fast" -> "1D intraday session pull error"
      [] p = "download" -> "download error"
      [] p = "history" -> "history error"
      [] p = "period" -> "intraday period fallback error"

ErrorLine(p) ==
    [kind |-> ErrorPrefix(p), ticker |-> << >>, start |-> 0, end |-> 0,
     interval |-> ""]

NoDataLine(tk, st, en, iv) ==
    [kind |-> "no data for", ticker |-> tk, start |-> st, end |-> en,
     interval |-> iv]

OnException_silent(log, p) == log

\* except Exception as e: print(..., file=sys.stderr)
OnException(log, p) == Append(log, ErrorLine(p))

OnNoData_silent(log, tk, st, en, iv) == log

\* line 251
OnNoData(log, tk, st, en, iv) == Append(log, NoDataLine(tk, st, en, iv))

-----------------------------------------------------------------------------
(* make_figure and update_chart *)

NoFigure == [title |-> "", ticker |-> << >>, start |-> 0, end |-> 0,
             x |-> << >>, has_intraday_time |-> FALSE, x_tickformat |-> "",
             hover_fmt |-> "", rangeslider |-> FALSE]

NoStatus == [kind |-> "", ticker |-> << >>, range |-> << >>, rows |-> 0,
             etype |-> "", text |-> ""]

\* make_figure, for a non-empty series
make_figure(s, tk) ==
    LET has_intraday_time == \E i \in DOMAIN s : FloorDay(s[i].t) # s[i].t
        whole == (s[Len(s)].t - s[1].t) \div 86400
        span_days == IF whole > 1 THEN whole ELSE 1
    IN  [title |-> "Price Performance", ticker |-> tk, start |-> 0, end |-> 0,
         x |-> [i \in DOMAIN s |-> s[i].t],
         has_intraday_time |-> has_intraday_time,
         x_tickformat |-> IF has_intraday_time THEN "%b %d, %H:%M"
                          ELSE IF span_days <= 120 THEN "%b %d" ELSE "%b %Y",
         hover_fmt |-> IF has_intraday_time THEN "%b %d, %Y %H:%M"
                       ELSE "%b %d, %Y",
         rangeslider |-> span_days > 60]

\* go.Figure(layout=dict(title="Error")), f"Error: {type(e).__name__}: {e}"
ErrorResult(etype, text) ==
    [returned |-> TRUE,
     figure |-> [NoFigure EXCEPT !.title = "Error"],
     status |-> [NoStatus EXCEPT !.kind = "Error", !.etype = etype, !.text = text]]

AttributeError(x, attr) ==
    ErrorResult("AttributeError",
                IF x.type = "NoneType"
                THEN "'NoneType' object has no attribute '" \o attr \o "'"
                ELSE "'int' object has no attribute '" \o attr \o "'")

OnError_raise(x, attr) ==
    [returned |-> FALSE, figure |-> NoFigure, status |-> NoStatus]

\* except Exception as e, for the AttributeError that x.attr raises
OnError(x, attr) == AttributeError(x, attr)

\* lines 493-500: what update_chart does with the series fetch_history returned
Render(s, tk, rk, st, en) ==
    IF Len(s) = 0
    THEN [returned |-> TRUE,
          figure |-> [NoFigure EXCEPT !.title = "No data", !.ticker = tk,
                                      !.start = st, !.end = en],
          status |-> [NoStatus EXCEPT !.kind = "No rows returned", !.ticker = tk]]
    ELSE IF rk.type # "str"
    THEN OnError(rk, "upper")
    ELSE [returned |-> TRUE,
          figure |-> make_figure(s, tk),
          status |-> [NoStatus EXCEPT !.kind = "Showing", !.ticker = tk,
                                      !.range = Upper(rk.val), !.rows = Len(s)]]

NotReturned == [returned |-> FALSE, figure |-> NoFigure, status |-> NoStatus]

-----------------------------------------------------------------------------
(* Inputs *)

TickerInputs == {PyNone, PyStr(<<" ", "m", "m", "m", "\n">>), PyInt(7)}

RangeInputs == {PyStr(k) : k \in RANGE_KEYS}
               \cup {PyNone, PyStr(<< >>), PyStr(<<"1", "D">>), PyStr(<<"1", "M">>),
                     PyStr(<<"x", "y", "z">>)}

-----------------------------------------------------------------------------
(* State machine *)

Init ==
    /\ pc = "idle"
    /\ caller = ""
    /\ ticker_in = PyNone
    /\ range_key = PyNone
    /\ today = 0
    /\ ticker = << >>
    /\ start = 0
    /\ end = 0
    /\ days = 0
    /\ interval = ""
    /\ calls = << >>
    /\ stderr = << >>
    /\ ret = [done |-> FALSE, s |-> << >>, by |-> ""]
    /\ out = NotReturned

\* lines 159-160 and the gate of line 184: fetch_history(tk, st, en) starts
EnterFetch(tk, st, en) ==
    /\ ticker' = tk
    /\ start' = st
    /\ end' = en
    /\ days' = SpanDays(st, en)
    /\ interval' = pick_interval(SpanDays(st, en))
    /\ pc' = NextStrategy("begin", pick_interval(SpanDays(st, en)), SpanDays(st, en))
    /\ UNCHANGED <<calls, stderr, ret>>

\* update_chart(ticker, range_key, _n) up to fetch_history's first provider call
UpdateChartCall(tk, rk, d) ==
    /\ pc = "idle"
    /\ caller' = "update_chart"
    /\ ticker_in' = tk
    /\ range_key' = rk
    /\ today' = d
    /\ IF OrEmpty(tk).type # "str"
       THEN /\ out' = OnError(tk, "strip")
            /\ pc' = "done"
            /\ UNCHANGED <<ticker, start, end, days, interval, calls, stderr, ret>>
       ELSE LET u == Upper(Strip(OrEmpty(tk).val))
                t == IF u # << >> THEN u ELSE DEFAULT_TICKER
                w == compute_window_endpoints(rk, get_last_trading_day(d))
            IN  /\ EnterFetch(t, w[1], w[2])
                /\ UNCHANGED out

\* fetch_history(ticker, start, end) called on its own
FetchHistoryCall(st, en) ==
    /\ pc = "idle"
    /\ caller' = "fetch_history"
    /\ EnterFetch(DEFAULT_TICKER, st, en)
    /\ UNCHANGED <<ticker_in, range_key, today, out>>

\* compute_window_endpoints(range_key, end_date) called on its own
PlanWindowCall(rk, d) ==
    /\ pc = "idle"
    /\ caller' = "compute_window_endpoints"
    /\ range_key' = rk
    /\ today' = d
    /\ start' = compute_window_endpoints(rk, d)[1]
    /\ end' = compute_window_endpoints(rk, d)[2]
    /\ pc' = "done"
    /\ UNCHANGED <<ticker_in, ticker, days, interval, calls, stderr, ret, out>>

\* fetch_history returns s, and update_chart (when it is the caller) renders it
Return(s, by) ==
    /\ ret' = [done |-> TRUE, s |-> s, by |-> by]
    /\ pc' = "done"
    /\ out' = IF caller = "update_chart"
              THEN Render(s, ticker, range_key, start, end)
              ELSE out

\* the strategy at p makes its provider call, which ends as o
Attempt(p, o) ==
    /\ pc = p
    /\ LET data == IF o.raises THEN << >> ELSE to_close_series(o.df, interval)
           got == IF o.raises THEN << >>
                  ELSE Yield(p, o.df, interval, days, start, end)
           log == IF o.raises THEN OnException(stderr, p) ELSE stderr
           nxt == NextStrategy(p, interval, days)
       IN  /\ calls' = Append(calls, [strategy |-> p, raised |-> o.raises,
                                      data |-> data, got |-> got])
           /\ IF got # << >>
              THEN /\ stderr' = log
                   /\ Return(got, p)
              ELSE IF nxt = "nodata"
              THEN /\ stderr' = OnNoData(log, ticker, start, end, interval)
                   /\ Return(<< >>, "nodata")
              ELSE /\ stderr' = log
                   /\ pc' = nxt
                   /\ UNCHANGED <<ret, out>>
    /\ UNCHANGED <<caller, ticker_in, range_key, today, ticker, start, end,
                   days, interval>>

\* lines 184-198
FastPath == \E o \in Outcomes : Attempt("fast", o)

\* lines 204-213
Download == \E o \in Outcomes : Attempt("download", o)

\* lines 216-224
History == \E o \in Outcomes : Attempt("history", o)

\* lines 227-249
PeriodFallback == \E o \in Outcomes : Attempt("period", o)

UpdateChart == \E tk \in TickerInputs, rk \in RangeInputs, d \in Todays :
                  UpdateChartCall(tk, rk, d)

FetchHistory == \E en \in FetchEnds, sp \in Spans : FetchHistoryCall(en - sp, en)

PlanWindow == \E rk \in RangeInputs, d \in Dates : PlanWindowCall(rk, d)

Next ==
    \/ UpdateChart
    \/ FetchHistory
    \/ PlanWindow
    \/ FastPath
    \/ Download
    \/ History
    \/ PeriodFallback

Spec == Init /\ [][Next]_vars

-----------------------------------------------------------------------------
(* Properties *)

StrategyOrder == <<"fast", "download", "history", "period">>

Pos(p) == CHOOSE i \in DOMAIN StrategyOrder : StrategyOrder[i] = p

LastCall == calls[Len(calls)]

\* C1: the provider calls follow the order fast path, download, history,
\* period fallback without a gap; only the last call made can have yielded a
\* non-empty series, that series is what fetch_history returns, and a fetch
\* that returned made no call after it.  In particular an empty fast path
\* followed by a non-empty download returns the download's normalized series
\* after exactly two calls.
C1_FallbackOrder ==
    /\ \A i \in DOMAIN calls :
          /\ i = 1 => calls[i].strategy \in {"fast", "download"}
          /\ i > 1 => Pos(calls[i].strategy) = Pos(calls[i - 1].strategy) + 1
          /\ i < Len(calls) => calls[i].got = << >>
    /\ (calls # << >> /\ LastCall.got # << >>) =>
          /\ pc = "done"
          /\ ret.done
          /\ ret.s = LastCall.got
          /\ ret.by = LastCall.strategy
    /\ (ret.done /\ ret.s # << >>) => ret.s = LastCall.got
    /\ (/\ Len(calls) >= 2
        /\ calls[1].strategy = "fast"
        /\ calls[2].got # << >>) =>
          /\ Len(calls) = 2
          /\ calls[2].strategy = "download"
          /\ ret.s = calls[2].data

C1_Witness ==
    /\ ret.done
    /\ Len(calls) = 2
    /\ calls[1].strategy = "fast"
    /\ ~calls[1].raised
    /\ calls[1].got = << >>
    /\ Len(ret.s) = 2
    /\ ret.s = calls[2].got

ErrorLines == SelectSeq(stderr, LAMBDA l : l.kind # "no data for")

NoDataLines == SelectSeq(stderr, LAMBDA l : l.kind = "no data for")

RaisedCalls == SelectSeq(calls, LAMBDA c : c.raised)

\* C2: every provider call that raised left exactly one line on stderr, in
\* call order and with its strategy's prefix; the call after a raising one is
\* the next strategy's, and a fetch whose last call raised is either at the
\* next strategy or has returned the empty series: no exception leaves
\* fetch_history.
C2_ExceptionsCaught ==
    /\ Len(ErrorLines) = Len(RaisedCalls)
    /\ \A i \in DOMAIN ErrorLines :
          ErrorLines[i].kind =
              (CASE RaisedCalls[i].strategy = "fast" -> "1D intraday session pull error"
                 [] RaisedCalls[i].strategy = "download" -> "download error"
                 [] RaisedCalls[i].strategy = "history" -> "history error"
                 [] RaisedCalls[i].strategy = "period" -> "intraday period fallback error")
    /\ \A i \in DOMAIN calls :
          (calls[i].raised /\ i < Len(calls)) =>
              Pos(calls[i + 1].strategy) = Pos(calls[i].strategy) + 1
    /\ (calls # << >> /\ LastCall.raised) =>
          \/ /\ pc \in {"download", "history", "period"}
             /\ Pos(pc) = Pos(LastCall.strategy) + 1
             /\ ~ret.done
          \/ /\ pc = "done"
             /\ ret.done
             /\ ret.s = << >>
             /\ LastCall.strategy \in {"history", "period"}
    /\ (pc = "done" /\ caller \in {"update_chart", "fetch_history"}
          /\ interval # "") => ret.done

C2_Witness ==
    /\ ret.done
    /\ Len(calls) = 4
    /\ \A i \in DOMAIN calls : calls[i].raised
    /\ Len(stderr) = 5

\* C3: a fetch all of whose calls raised or yielded the empty series returns
\* the empty series with exactly one "no data" line, the last line on stderr,
\* carrying the ticker, start, end and interval of the fetch; a fetch in which
\* a call yielded a non-empty series, or one that has not returned, has no
\* such line.
C3_TotalFailure ==
    /\ Len(NoDataLines) <= 1
    /\ ~ret.done => NoDataLines = << >>
    /\ ret.done =>
          /\ (\A i \in DOMAIN calls : calls[i].got = << >>) <=> Len(NoDataLines) = 1
          /\ (\A i \in DOMAIN calls : calls[i].got = << >>) =>
                /\ ret.s = << >>
                /\ stderr[Len(stderr)].kind = "no data for"
                /\ stderr[Len(stderr)].ticker = ticker
                /\ stderr[Len(stderr)].start = start
                /\ stderr[Len(stderr)].end = end
                /\ stderr[Len(stderr)].interval = interval

C3_Witness ==
    /\ ret.done
    /\ ret.s = << >>
    /\ Len(NoDataLines) = 1
    /\ \E i \in DOMAIN calls : calls[i].raised
    /\ \E i \in DOMAIN calls : ~calls[i].raised /\ calls[i].data # << >>

\* C4 (as claimed): every returned series has strictly increasing timestamps
\* (hence no duplicates), no missing close, and timestamps floored to the day
\* for the 1d interval and to the minute otherwise.
C4_SeriesInvariant ==
    ret.done =>
        /\ \A i \in DOMAIN ret.s :
              /\ ret.s[i].close # "NaN"
              /\ IF interval = "1d" THEN ret.s[i].t % 86400 = 0
                 ELSE ret.s[i].t % 60 = 0
        /\ \A i, j \in DOMAIN ret.s : i < j => ret.s[i].t < ret.s[j].t

\* C5: update_chart always returns a (figure, status) pair: the price chart of
\* the non-empty series fetched, the "No data" figure when the series fetched
\* is empty, or the "Error" figure with a status carrying the error's type
\* name and text.
C5_AlwaysRenders ==
    (pc = "done" /\ caller = "update_chart") =>
        /\ out.returned
        /\ \/ /\ out.figure.title = "Price Performance"
              /\ out.status.kind = "Showing"
              /\ ret.done
              /\ ret.s # << >>
              /\ Len(out.figure.x) = Len(ret.s)
              /\ out.status.rows = Len(ret.s)
           \/ /\ out.figure.title = "No data"
              /\ out.status.kind = "No rows returned"
              /\ ret.done
              /\ ret.s = << >>
           \/ /\ out.figure.title = "Error"
              /\ out.status.kind = "Error"
              /\ out.status.etype # ""
              /\ out.status.text # ""

C5_Witness ==
    /\ pc = "done"
    /\ caller = "update_chart"
    /\ out.figure.title = "Error"
    /\ out.status.etype = "AttributeError"
    /\ ticker_in.type = "int"

Recognized(rk) == rk.type = "str" /\ Lower(rk.val) \in RANGE_KEYS

\* C6 (as claimed): for a range keyword that is absent or not one of the seven
\* (case-insensitively), update_chart fetches [end - 90, end] and renders the
\* price chart of a non-empty series fetched.
C6_UnknownKeywordIs3m ==
    (pc = "done" /\ caller = "update_chart" /\ ret.done /\ ~Recognized(range_key)) =>
        /\ end = get_last_trading_day(today)
        /\ start = end - 90
        /\ ret.s # << >> => out.figure.title = "Price Performance"

IsOneMonth(rk) == rk.type = "str" /\ Lower(rk.val) = <<"1", "m">>

\* C7 (as claimed): for "1m" and a weekday reference date the window is
\* [today - 30, today], the interval of the fetch is 1d and the returned
\* timestamps are floored to the day.
C7_OneMonthIsDaily ==
    (caller = "update_chart" /\ interval # "" /\ IsOneMonth(range_key)
        /\ Weekday(today) < 5) =>
        /\ start = today - 30
        /\ end = today
        /\ interval = "1d"
        /\ ret.done => \A i \in DOMAIN ret.s : ret.s[i].t % 86400 = 0

\* C7 (amended): for "1m" and a weekday reference date the window is
\* [today - 30, today], the interval of the fetch is 60m and the returned
\* timestamps are floored to the minute.
C7_OneMonthIsHourly ==
    (caller = "update_chart" /\ interval # "" /\ IsOneMonth(range_key)
        /\ Weekday(today) < 5) =>
        /\ start = today - 30
        /\ end = today
        /\ days = 30
        /\ interval = "60m"
        /\ ret.done => \A i \in DOMAIN ret.s : ret.s[i].t % 60 = 0

C7_Witness ==
    /\ caller = "update_chart"
    /\ range_key = PyStr(<<"1", "m">>)
    /\ Weekday(today) = 2
    /\ ret.done
    /\ \E i \in DOMAIN ret.s : ret.s[i].t % 86400 # 0

\* C8: the interval of a fetch is 5m for days <= 2, 30m for 2 < days <= 10,
\* 60m for 10 < days <= 60 and 1d above; the boundary values 2, 3, 10, 11, 60,
\* 61 give 5m, 30m, 30m, 60m, 60m, 1d.
C8_PickInterval ==
    (caller \in {"update_chart", "fetch_history"} /\ interval # "") =>
        /\ interval \in {"5m", "30m", "60m", "1d"}
        /\ interval = "5m" <=> days <= 2
        /\ interval = "30m" <=> (2 < days /\ days <= 10)
        /\ interval = "60m" <=> (10 < days /\ days <= 60)
        /\ interval = "1d" <=> days > 60
        /\ days = 2 => interval = "5m"
        /\ days = 3 => interval = "30m"
        /\ days = 10 => interval = "30m"
        /\ days = 11 => interval = "60m"
        /\ days = 60 => interval = "60m"
        /\ days = 61 => interval = "1d"

C8_Witness ==
    /\ caller = "fetch_history"
    /\ days = 60
    /\ interval = "60m"
    /\ ret.done

IsOneDay(rk) == rk.type = "str" /\ Lower(rk.val) = <<"1", "d">>

\* C9: for "1d" the planned end is the most recent Monday-to-Friday date on or
\* before the reference date (Saturday one day back, Sunday two, a weekday
\* itself) and the planned start is the day before it.
C9_OneDayWindow ==
    (pc = "done" /\ caller = "compute_window_endpoints" /\ IsOneDay(range_key)) =>
        /\ Weekday(end) <= 4
        /\ end <= today
        /\ \A d \in (end + 1) .. today : Weekday(d) >= 5
        /\ Weekday(today) = 5 => end = today - 1
        /\ Weekday(today) = 6 => end = today - 2
        /\ Weekday(today) <= 4 => end = today
        /\ start = end - 1
        /\ start <= end

C9_Witness ==
    /\ pc = "done"
    /\ caller = "compute_window_endpoints"
    /\ range_key = PyStr(<<"1", "d">>)
    /\ Weekday(today) = 6
    /\ Weekday(end) = 4

\* C10: a series returned by the fast path, or by the period fallback of a
\* one-day span, holds exactly the rows of the latest calendar day of the
\* normalized response, in their order: all its rows are on that day and no
\* row of that day is left out.
C10_SingleSession ==
    (ret.done /\ (ret.by = "fast" \/ (ret.by = "period" /\ days = 1))) =>
        LET data == LastCall.data
            latest == CHOOSE d \in {FloorDay(data[i].t) : i \in DOMAIN data} :
                         \A i \in DOMAIN data : FloorDay(data[i].t) <= d
        IN  /\ ret.s # << >>
            /\ \A i \in DOMAIN ret.s : FloorDay(ret.s[i].t) = latest
            /\ ret.s = SelectSeq(data, LAMBDA r : FloorDay(r.t) = latest)

C10_Witness ==
    /\ ret.done
    /\ ret.by = "fast"
    /\ Len(LastCall.data) = 2
    /\ Len(ret.s) = 1
    /\ FloorDay(LastCall.data[1].t) > FloorDay(LastCall.data[2].t)

Called(p) == \E i \in DOMAIN calls : calls[i].strategy = p

\* the gating of the four strategies, for a fetch whose span in days is span
Gating(span) ==
    LET iv == IF span <= 2 THEN "5m"
              ELSE IF span <= 10 THEN "30m"
              ELSE IF span <= 60 THEN "60m"
              ELSE "1d"
    IN  /\ interval = iv
        /\ (iv # "1d" /\ span = 1) =>
              \/ pc = "fast" /\ calls = << >>
              \/ calls # << >> /\ calls[1].strategy = "fast"
        /\ ~(iv # "1d" /\ span = 1) => (pc # "fast" /\ ~Called("fast"))
        /\ (Called("period") \/ pc = "period") =>
              /\ iv # "1d"
              /\ Called("download")
              /\ Called("history")
              /\ \A i \in DOMAIN calls :
                    calls[i].strategy # "period" => calls[i].got = << >>
        /\ iv = "1d" =>
              /\ \A i \in DOMAIN calls : calls[i].strategy \in {"download", "history"}
              /\ Len(calls) <= 2
        /\ Len(calls) <= 4
        /\ \A i, j \in DOMAIN calls :
              calls[i].strategy = calls[j].strategy => i = j

InFetch == caller \in {"update_chart", "fetch_history"} /\ interval # ""

====
